---------------------------- MODULE Spec2Model ----------------------------
(***************************************************************************)
(* A model of cosmology.core: the derived-quantity functions of            *)
(* background.py, standard.py and components/*.py, the single-dispatch     *)
(* registries that @singledispatch attaches to the density functions, and  *)
(* get_namespace of core.py.                                               *)
(*                                                                         *)
(* The cosmology objects and the redshift arrays are collaborators: they   *)
(* live on a heap the functions only receive references into.  Every       *)
(* accessor of an object answers with a number that is different for each  *)
(* (object, accessor, redshift), or raises, so that a function reading the *)
(* wrong accessor, the wrong object or the wrong redshift is seen.         *)
(***************************************************************************)
EXTENDS Integers, Sequences, FiniteSets, TLC

\* ---------------------------------------------------------------------
\* Bounds of the exploration.
\* ---------------------------------------------------------------------

\* Longest argument list handed to get_namespace.
MaxInputs == 2

\* Number of classes one function has a specialization registered for.
MaxRegistrations == 2

\* ---------------------------------------------------------------------
\* The collaborators: classes, cosmology objects, arrays.
\* ---------------------------------------------------------------------

\* None, as the default of api_version.
None == "None"

\* The argument slot of a function that takes no redshift.
NoZ == "NoZ"

\* The api_version values a caller passes to get_namespace.
ApiVersions == {None, "2021.12"}

\* The cosmology classes a user defines: FlatLCDM derives from LCDM, wCDM is
\* unrelated to both.
CosmologyClasses == {"LCDM", "FlatLCDM", "wCDM"}

\* Two abstract base classes a user defines, unrelated to each other.
AbstractClasses == {"Evolving", "Tabulated"}

\* The classes a specialization is registered for.
RegistrationClasses == {"LCDM"} \cup AbstractClasses

\* __mro__ of a class.
MRO(cls) ==
    CASE cls = "LCDM"      -> <<"LCDM", "object">>
      [] cls = "FlatLCDM"  -> <<"FlatLCDM", "LCDM", "object">>
      [] cls = "wCDM"      -> <<"wCDM", "object">>
      [] cls = "Evolving"  -> <<"Evolving", "ABC", "object">>
      [] cls = "Tabulated" -> <<"Tabulated", "ABC", "object">>
      [] OTHER             -> <<cls, "object">>

\* The abstract base classes a class was declared a virtual subclass of
\* (Evolving.register(FlatLCDM), Tabulated.register(FlatLCDM)): they are not in
\* its __mro__, and issubclass holds all the same.
VirtualBases(cls) == IF cls = "FlatLCDM" THEN AbstractClasses ELSE {}

\* issubclass(cls, typ)
issubclass(cls, typ) ==
    \E k \in 1..Len(MRO(cls)) :
        \/ MRO(cls)[k] = typ
        \/ typ \in VirtualBases(MRO(cls)[k])

\* The property accessors and the accessors called with a redshift that the
\* functions of this layer read.
PropertyAccessors ==
    {"scale_factor0", "Otot0", "critical_density0", "H0", "h", "hubble_distance",
    "hubble_time", "Tcmb0", "Ok0", "Om0", "Odm0", "Ob0", "Ogamma0", "Onu0", "Neff",
    "m_nu", "Ode0"}

MethodAccessors ==
    {"scale_factor", "Otot", "critical_density", "age", "lookback_time",
    "comoving_distance", "comoving_transverse_distance", "comoving_volume",
    "differential_comoving_volume", "angular_diameter_distance", "luminosity_distance",
    "H", "efunc", "inv_efunc", "Tcmb", "Ok", "Om", "Odm", "Ob", "Ogamma", "Onu", "Ode"}

\* A number for each accessor name, used to make the accessors' answers differ.
AccessorIndex ==
    [scale_factor0 |-> 1, Otot0 |-> 2, critical_density0 |-> 3, H0 |-> 4, 
     h |-> 5, hubble_distance |-> 6, hubble_time |-> 7, Tcmb0 |-> 8, 
     Ok0 |-> 9, Om0 |-> 10, Odm0 |-> 11, Ob0 |-> 12, Ogamma0 |-> 13, 
     Onu0 |-> 14, Neff |-> 15, m_nu |-> 16, Ode0 |-> 17, scale_factor |-> 18, 
     Otot |-> 19, critical_density |-> 20, age |-> 21, lookback_time |-> 22, 
     comoving_distance |-> 23, comoving_transverse_distance |-> 24, 
     comoving_volume |-> 25, differential_comoving_volume |-> 26, angular_diameter_distance |-> 27, 
     luminosity_distance |-> 28, H |-> 29, efunc |-> 30, inv_efunc |-> 31, 
     Tcmb |-> 32, Ok |-> 33, Om |-> 34, Odm |-> 35, Ob |-> 36, Ogamma |-> 37, 
     Onu |-> 38, Ode |-> 39]

\* The density-parameter accessors.
OmegaAccessors ==
    {"Otot0", "Otot", "Ok0", "Ok", "Om0", "Om", "Odm0", "Odm", "Ob0", "Ob",
     "Ogamma0", "Ogamma", "Onu0", "Onu", "Ode0", "Ode"}

\* The cosmology objects a caller holds.
Cosmologies == {"c1", "c2", "c3", "c4"}

\* Everything a caller may hand to get_namespace: the cosmologies and an object
\* that does not satisfy the CosmologyAPI protocol.
Objects == Cosmologies \cup {"x1"}

\* The redshift arrays a caller holds.
Arrays == {"z1", "z2"}

\* The threads of the process.
Threads == {"t1", "t2"}

\* The accessors an object of a failure profile raises on: a healthy object
\* raises on none; one has broken density parameters (all but the baryons');
\* one has everything else broken, and the dark-energy parameter with it.
FaultyAccessors(profile) ==
    CASE profile = "healthy"   -> {}
      [] profile = "densities" -> OmegaAccessors \ {"Ob0", "Ob"}
      [] profile = "others"    -> (PropertyAccessors \cup MethodAccessors)
                                     \ (OmegaAccessors \ {"Ode0", "Ode"})

\* The heap after the caller has built its objects.
\*   cls      the object's class
\*   api      whether isinstance(x, CosmologyAPI) holds
\*   xp       the array backend the object is bound to
\*   seed     what its accessors' answers are computed from
\*   faulty   its failure profile, with failure the kind of exception it raises
\*   strict   whether an accessor raises TypeError on an array of another backend
\*   rejects  the api_version values its __cosmology_namespace__ raises on
InitialHeap ==
    [o \in Objects |->
        CASE o = "c1" -> [cls |-> "LCDM", api |-> TRUE, xp |-> "numpy", seed |-> 1,
                          faulty |-> "healthy", failure |-> "ValueError",
                          strict |-> FALSE, rejects |-> {}]
          [] o = "c2" -> [cls |-> "FlatLCDM", api |-> TRUE, xp |-> "jax", seed |-> 2,
                          faulty |-> "healthy", failure |-> "ValueError",
                          strict |-> TRUE, rejects |-> {}]
          [] o = "c3" -> [cls |-> "wCDM", api |-> TRUE, xp |-> "numpy", seed |-> 3,
                          faulty |-> "densities", failure |-> "ZeroDivisionError",
                          strict |-> FALSE, rejects |-> {"2021.12"}]
          [] o = "c4" -> [cls |-> "LCDM", api |-> TRUE, xp |-> "numpy", seed |-> 4,
                          faulty |-> "others", failure |-> "ValueError",
                          strict |-> FALSE, rejects |-> {"2021.12"}]
          [] o = "x1" -> [cls |-> "float", api |-> FALSE, xp |-> "none", seed |-> 5,
                          faulty |-> "healthy", failure |-> "ValueError",
                          strict |-> FALSE, rejects |-> {}]]

\* The arrays: their backend and the redshift they hold.
InitialArrays ==
    [a \in Arrays |->
        CASE a = "z1" -> [xp |-> "numpy", v |-> 1]
          [] a = "z2" -> [xp |-> "jax", v |-> 2]]

\* ---------------------------------------------------------------------
\* State.
\* ---------------------------------------------------------------------

VARIABLES
    heap,       \* the cosmology objects (and x1), by reference
    arrays,     \* the redshift arrays, by reference
    registry,   \* per function: what @singledispatch's registry maps each class to
    last,       \* the last operation: what was called, with what, and how it ended
    running     \* per thread: the call it is in, and how far that call has come

vars == <<heap, arrays, registry, last, running>>

\* ---------------------------------------------------------------------
\* Results and exceptions.
\* ---------------------------------------------------------------------

\* A call that returns v.
Ok(v) == [ok |-> TRUE, val |-> v]

\* A call that ends by raising: the exception's class, its message, and the
\* place that raised it (the identity of the exception object).
Raise(kind, msg, by) == [ok |-> FALSE, exc |-> [kind |-> kind, msg |-> msg, by |-> by]]

\* ---------------------------------------------------------------------
\* The accessors of a cosmology object (cosmology.api, outside this layer).
\* ---------------------------------------------------------------------

\* The number an accessor of object o answers with at redshift value zv.
Answer(o, a, zv) == (heap[o].seed * 100 + AccessorIndex[a]) * 10 + zv

\* cosmo.<a>: reading a property.
GetAttr(cosmo, a) ==
    IF a \in FaultyAccessors(heap[cosmo].faulty)
    THEN Raise(heap[cosmo].failure, "accessor failed", <<cosmo, a>>)
    ELSE Ok(Answer(cosmo, a, 0))

\* cosmo.<a>(z): calling an accessor with a redshift array.
CallMethod(cosmo, a, z) ==
    IF a \in FaultyAccessors(heap[cosmo].faulty)
    THEN Raise(heap[cosmo].failure, "accessor failed", <<cosmo, a>>)
    ELSE IF heap[cosmo].strict /\ arrays[z].xp # heap[cosmo].xp
    THEN Raise("TypeError", "array of another backend", <<cosmo, a>>)
    ELSE Ok(Answer(cosmo, a, arrays[z].v))

\* left * right, Python's evaluation order: the left operand is evaluated
\* first, and an exception of either operand ends the expression.
Mul(left, right) ==
    IF ~left.ok THEN left
    ELSE IF ~right.ok THEN right
    ELSE Ok(left.val * right.val)

\* typing.cast returns its argument.
cast(x) == x

\* ---------------------------------------------------------------------
\* The derived-quantity functions, one operator per function of the source.
\* The functions of cosmology.core.standard carry the prefix standard_: their
\* names clash with those of the cosmology.core.components modules.
\* ---------------------------------------------------------------------

\* background.py:13-15  def scale_factor0: return cosmo.scale_factor0
scale_factor0(cosmo) ==
    GetAttr(cosmo, "scale_factor0")

\* background.py:18-34  def scale_factor: return cosmo.scale_factor(z)
scale_factor(cosmo, z) ==
    CallMethod(cosmo, "scale_factor", z)

\* background.py:41-43  def omega_total0: return cosmo.Otot0
omega_total0(cosmo) ==
    GetAttr(cosmo, "Otot0")

\* background.py:46-49  @singledispatch def rho_total0: return cosmo.Otot0 * cosmo.critical_density0
rho_total0(cosmo) ==
    Mul(GetAttr(cosmo, "Otot0"), GetAttr(cosmo, "critical_density0"))

\* background.py:52-66  def omega_total: return cosmo.Otot(z)
omega_total(cosmo, z) ==
    CallMethod(cosmo, "Otot", z)

\* background.py:69-84  @singledispatch def rho_total: return cosmo.Otot(z) * cosmo.critical_density(z)
rho_total(cosmo, z) ==
    Mul(CallMethod(cosmo, "Otot", z), CallMethod(cosmo, "critical_density", z))

\* background.py:91-93  def critical_density0: return cosmo.critical_density0
critical_density0(cosmo) ==
    GetAttr(cosmo, "critical_density0")

\* background.py:96-98  def critical_density: return cosmo.critical_density(z)
critical_density(cosmo, z) ==
    CallMethod(cosmo, "critical_density", z)

\* background.py:105-119  def age: return cosmo.age(z)
age(cosmo, z) ==
    CallMethod(cosmo, "age", z)

\* lookback_time reading the age accessor.
lookback_time_from_age(cosmo, z) ==
    CallMethod(cosmo, "age", z)

\* background.py:122-139  def lookback_time: return cosmo.lookback_time(z)
lookback_time(cosmo, z) ==
    CallMethod(cosmo, "lookback_time", z)

\* background.py:146-163  def comoving_distance: return cosmo.comoving_distance(z)
comoving_distance(cosmo, z) ==
    CallMethod(cosmo, "comoving_distance", z)

\* background.py:166-189  def comoving_transverse_distance: return cosmo.comoving_transverse_distance(z)
comoving_transverse_distance(cosmo, z) ==
    CallMethod(cosmo, "comoving_transverse_distance", z)

\* background.py:192-210  def comoving_volume: return cosmo.comoving_volume(z)
comoving_volume(cosmo, z) ==
    CallMethod(cosmo, "comoving_volume", z)

\* background.py:213-231  def differential_comoving_volume: return cosmo.differential_comoving_volume(z)
differential_comoving_volume(cosmo, z) ==
    CallMethod(cosmo, "differential_comoving_volume", z)

\* background.py:238-266  def angular_diameter_distance: return cosmo.angular_diameter_distance(z)
angular_diameter_distance(cosmo, z) ==
    CallMethod(cosmo, "angular_diameter_distance", z)

\* background.py:273-294  def luminosity_distance: return cosmo.luminosity_distance(z)
luminosity_distance(cosmo, z) ==
    CallMethod(cosmo, "luminosity_distance", z)

\* standard.py:18-20  def hubble_parameter0: return cosmo.H0
standard_hubble_parameter0(cosmo) ==
    GetAttr(cosmo, "H0")

\* standard.py:23-25  def dimensionless_hubble_parameter0: return cosmo.h
standard_dimensionless_hubble_parameter0(cosmo) ==
    GetAttr(cosmo, "h")

\* standard.py:28-30  def hubble_distance: return cosmo.hubble_distance
standard_hubble_distance(cosmo) ==
    GetAttr(cosmo, "hubble_distance")

\* standard.py:33-35  def hubble_time: return cosmo.hubble_time
standard_hubble_time(cosmo) ==
    GetAttr(cosmo, "hubble_time")

\* standard.py:38-52  def hubble_parameter: return cosmo.H(z)
standard_hubble_parameter(cosmo, z) ==
    CallMethod(cosmo, "H", z)

\* standard.py:55-69  def standardized_hubble_function: return cosmo.efunc(z)
standard_standardized_hubble_function(cosmo, z) ==
    CallMethod(cosmo, "efunc", z)

\* standard.py:72-90  def inv_standardized_hubble_function: return cosmo.inv_efunc(z)
standard_inv_standardized_hubble_function(cosmo, z) ==
    CallMethod(cosmo, "inv_efunc", z)

\* standard.py:97-99  def Tcmb0: return cosmo.Tcmb0
standard_Tcmb0(cosmo) ==
    GetAttr(cosmo, "Tcmb0")

\* standard.py:102-116  def Tcmb: return cosmo.Tcmb(z)
standard_Tcmb(cosmo, z) ==
    CallMethod(cosmo, "Tcmb", z)

\* standard.py:123-125  def omega_curve0: return cosmo.Ok0
standard_omega_curve0(cosmo) ==
    GetAttr(cosmo, "Ok0")

\* standard.py:128-130  def rho_curve0: return cosmo.Ok0 * cosmo.critical_density0
standard_rho_curve0(cosmo) ==
    Mul(GetAttr(cosmo, "Ok0"), GetAttr(cosmo, "critical_density0"))

\* standard.py:133-147  def omega_curve: return cosmo.Ok(z)
standard_omega_curve(cosmo, z) ==
    CallMethod(cosmo, "Ok", z)

\* rho_curve with the critical density of today instead of that at z.
standard_rho_curve_today(cosmo, z) ==
    Mul(CallMethod(cosmo, "Ok", z), GetAttr(cosmo, "critical_density0"))

\* standard.py:150-164  def rho_curve: return cosmo.Ok(z) * cosmo.critical_density(z)
standard_rho_curve(cosmo, z) ==
    Mul(CallMethod(cosmo, "Ok", z), CallMethod(cosmo, "critical_density", z))

\* standard.py:171-173  def omega_matter0: return cosmo.Om0
standard_omega_matter0(cosmo) ==
    GetAttr(cosmo, "Om0")

\* standard.py:176-178  def rho_matter0: return cosmo.Om0 * cosmo.critical_density0
standard_rho_matter0(cosmo) ==
    Mul(GetAttr(cosmo, "Om0"), GetAttr(cosmo, "critical_density0"))

\* standard.py:181-195  def omega_matter: return cosmo.Om(z)
standard_omega_matter(cosmo, z) ==
    CallMethod(cosmo, "Om", z)

\* standard.py:198-212  def rho_matter: return cosmo.Om(z) * cosmo.critical_density(z)
standard_rho_matter(cosmo, z) ==
    Mul(CallMethod(cosmo, "Om", z), CallMethod(cosmo, "critical_density", z))

\* standard.py:219-221  def omega_dm0: return cosmo.Odm0
standard_omega_dm0(cosmo) ==
    GetAttr(cosmo, "Odm0")

\* standard.py:224-227  @singledispatch def rho_dm0: return cosmo.Odm0 * cosmo.critical_density0
standard_rho_dm0(cosmo) ==
    Mul(GetAttr(cosmo, "Odm0"), GetAttr(cosmo, "critical_density0"))

\* standard.py:230-244  def omega_dm: return cosmo.Odm(z)
standard_omega_dm(cosmo, z) ==
    CallMethod(cosmo, "Odm", z)

\* standard.py:247-262  @singledispatch def rho_dm: return cosmo.Odm(z) * cosmo.critical_density(z)
standard_rho_dm(cosmo, z) ==
    Mul(CallMethod(cosmo, "Odm", z), CallMethod(cosmo, "critical_density", z))

\* standard.py:269-271  def omega_baryon0: return cosmo.Ob0
standard_omega_baryon0(cosmo) ==
    GetAttr(cosmo, "Ob0")

\* standard.py:274-277  @singledispatch def rho_baryon0: return cosmo.Ob0 * cosmo.critical_density0
standard_rho_baryon0(cosmo) ==
    Mul(GetAttr(cosmo, "Ob0"), GetAttr(cosmo, "critical_density0"))

\* standard.py:280-294  def omega_baryon: return cosmo.Ob(z)
standard_omega_baryon(cosmo, z) ==
    CallMethod(cosmo, "Ob", z)

\* standard.py:297-312  @singledispatch def rho_baryon: return cosmo.Ob(z) * cosmo.critical_density(z)
standard_rho_baryon(cosmo, z) ==
    Mul(CallMethod(cosmo, "Ob", z), CallMethod(cosmo, "critical_density", z))

\* standard.py:319-321  def omega_photon0: return cosmo.Ogamma0
standard_omega_photon0(cosmo) ==
    GetAttr(cosmo, "Ogamma0")

\* standard.py:324-327  @singledispatch def rho_photon0: return cosmo.Ogamma0 * cosmo.critical_density0
standard_rho_photon0(cosmo) ==
    Mul(GetAttr(cosmo, "Ogamma0"), GetAttr(cosmo, "critical_density0"))

\* standard.py:330-344  def omega_photon: return cosmo.Ogamma(z)
standard_omega_photon(cosmo, z) ==
    CallMethod(cosmo, "Ogamma", z)

\* standard.py:347-362  @singledispatch def rho_photon: return cosmo.Ogamma(z) * cosmo.critical_density(z)
standard_rho_photon(cosmo, z) ==
    Mul(CallMethod(cosmo, "Ogamma", z), CallMethod(cosmo, "critical_density", z))

\* standard.py:369-371  def omega_neutrino0: return cosmo.Onu0
standard_omega_neutrino0(cosmo) ==
    GetAttr(cosmo, "Onu0")

\* standard.py:374-377  @singledispatch def rho_neutrino0: return cosmo.Onu0 * cosmo.critical_density0
standard_rho_neutrino0(cosmo) ==
    Mul(GetAttr(cosmo, "Onu0"), GetAttr(cosmo, "critical_density0"))

\* omega_neutrino of standard.py reading the parameter of today.
standard_omega_neutrino_today(cosmo, z) ==
    GetAttr(cosmo, "Onu0")

\* standard.py:380-394  def omega_neutrino: return cosmo.Onu(z)
standard_omega_neutrino(cosmo, z) ==
    CallMethod(cosmo, "Onu", z)

\* standard.py:397-412  @singledispatch def rho_neutrino: return cosmo.Onu(z) * cosmo.critical_density(z)
standard_rho_neutrino(cosmo, z) ==
    Mul(CallMethod(cosmo, "Onu", z), CallMethod(cosmo, "critical_density", z))

\* standard.py:415-427  def N_eff: return cosmo.Neff
standard_N_eff(cosmo) ==
    GetAttr(cosmo, "Neff")

\* standard.py:430-443  def mass_nu: return cast('tuple[ArrayT, ...]', cosmo.m_nu)
standard_mass_nu(cosmo) ==
    cast(GetAttr(cosmo, "m_nu"))

\* standard.py:450-452  def omega_de0: return cosmo.Ode0
standard_omega_de0(cosmo) ==
    GetAttr(cosmo, "Ode0")

\* standard.py:455-458  @singledispatch def rho_de0: return cosmo.Ode0 * cosmo.critical_density0
standard_rho_de0(cosmo) ==
    Mul(GetAttr(cosmo, "Ode0"), GetAttr(cosmo, "critical_density0"))

\* standard.py:461-475  def omega_de: return cosmo.Ode(z)
standard_omega_de(cosmo, z) ==
    CallMethod(cosmo, "Ode", z)

\* standard.py:478-493  @singledispatch def rho_de: return cosmo.Ode(z) * cosmo.critical_density(z)
standard_rho_de(cosmo, z) ==
    Mul(CallMethod(cosmo, "Ode", z), CallMethod(cosmo, "critical_density", z))

\* components/curvature.py:13-15  def omega_curve0: return cosmo.Ok0
omega_curve0(cosmo) ==
    GetAttr(cosmo, "Ok0")

\* components/curvature.py:18-21  @singledispatch def rho_curve0: return cosmo.Ok0 * cosmo.critical_density0
rho_curve0(cosmo) ==
    Mul(GetAttr(cosmo, "Ok0"), GetAttr(cosmo, "critical_density0"))

\* components/curvature.py:24-38  def omega_curve: return cosmo.Ok(z)
omega_curve(cosmo, z) ==
    CallMethod(cosmo, "Ok", z)

\* components/curvature.py:41-56  @singledispatch def rho_curve: return cosmo.Ok(z) * cosmo.critical_density(z)
rho_curve(cosmo, z) ==
    Mul(CallMethod(cosmo, "Ok", z), CallMethod(cosmo, "critical_density", z))

\* components/de.py:13-15  def omega_de0: return cosmo.Ode0
omega_de0(cosmo) ==
    GetAttr(cosmo, "Ode0")

\* components/de.py:18-21  @singledispatch def rho_de0: return cosmo.Ode0 * cosmo.critical_density0
rho_de0(cosmo) ==
    Mul(GetAttr(cosmo, "Ode0"), GetAttr(cosmo, "critical_density0"))

\* components/de.py:24-38  def omega_de: return cosmo.Ode(z)
omega_de(cosmo, z) ==
    CallMethod(cosmo, "Ode", z)

\* components/de.py:41-56  @singledispatch def rho_de: return cosmo.Ode(z) * cosmo.critical_density(z)
rho_de(cosmo, z) ==
    Mul(CallMethod(cosmo, "Ode", z), CallMethod(cosmo, "critical_density", z))

\* components/matter.py:13-15  def omega_matter0: return cosmo.Om0
omega_matter0(cosmo) ==
    GetAttr(cosmo, "Om0")

\* components/matter.py:18-21  @singledispatch def rho_matter0: return cosmo.Om0 * cosmo.critical_density0
rho_matter0(cosmo) ==
    Mul(GetAttr(cosmo, "Om0"), GetAttr(cosmo, "critical_density0"))

\* components/matter.py:24-38  def omega_matter: return cosmo.Om(z)
omega_matter(cosmo, z) ==
    CallMethod(cosmo, "Om", z)

\* rho_matter resolving the namespaces of its arguments before it computes.
rho_matter_resolving(cosmo, z) ==
    IF arrays[z].xp # heap[cosmo].xp
    THEN Raise("ValueError", "Multiple namespaces for cosmology inputs",
               <<"core", "get_namespace">>)
    ELSE Mul(CallMethod(cosmo, "Om", z), CallMethod(cosmo, "critical_density", z))

\* components/matter.py:41-56  @singledispatch def rho_matter: return cosmo.Om(z) * cosmo.critical_density(z)
rho_matter(cosmo, z) ==
    Mul(CallMethod(cosmo, "Om", z), CallMethod(cosmo, "critical_density", z))

\* components/matter_baryon.py:13-15  def omega_baryon0: return cosmo.Ob0
omega_baryon0(cosmo) ==
    GetAttr(cosmo, "Ob0")

\* rho_baryon0 with the matter parameter left in from the function it was copied from.
rho_baryon0_copied(cosmo) ==
    Mul(GetAttr(cosmo, "Om0"), GetAttr(cosmo, "critical_density0"))

\* components/matter_baryon.py:18-21  @singledispatch def rho_baryon0: return cosmo.Ob0 * cosmo.critical_density0
rho_baryon0(cosmo) ==
    Mul(GetAttr(cosmo, "Ob0"), GetAttr(cosmo, "critical_density0"))

\* components/matter_baryon.py:24-38  def omega_baryon: return cosmo.Ob(z)
omega_baryon(cosmo, z) ==
    CallMethod(cosmo, "Ob", z)

\* components/matter_baryon.py:41-56  @singledispatch def rho_baryon: return cosmo.Ob(z) * cosmo.critical_density(z)
rho_baryon(cosmo, z) ==
    Mul(CallMethod(cosmo, "Ob", z), CallMethod(cosmo, "critical_density", z))

\* components/matter_cdm.py:13-15  def omega_dm0: return cosmo.Odm0
omega_dm0(cosmo) ==
    GetAttr(cosmo, "Odm0")

\* components/matter_cdm.py:18-21  @singledispatch def rho_dm0: return cosmo.Odm0 * cosmo.critical_density0
rho_dm0(cosmo) ==
    Mul(GetAttr(cosmo, "Odm0"), GetAttr(cosmo, "critical_density0"))

\* components/matter_cdm.py:24-38  def omega_dm: return cosmo.Odm(z)
omega_dm(cosmo, z) ==
    CallMethod(cosmo, "Odm", z)

\* components/matter_cdm.py:41-56  @singledispatch def rho_dm: return cosmo.Odm(z) * cosmo.critical_density(z)
rho_dm(cosmo, z) ==
    Mul(CallMethod(cosmo, "Odm", z), CallMethod(cosmo, "critical_density", z))

\* components/neutrino.py:13-15  def omega_neutrino0: return cosmo.Onu0
omega_neutrino0(cosmo) ==
    GetAttr(cosmo, "Onu0")

\* components/neutrino.py:18-21  @singledispatch def rho_neutrino0: return cosmo.Onu0 * cosmo.critical_density0
rho_neutrino0(cosmo) ==
    Mul(GetAttr(cosmo, "Onu0"), GetAttr(cosmo, "critical_density0"))

\* components/neutrino.py:24-38  def omega_neutrino: return cosmo.Onu(z)
omega_neutrino(cosmo, z) ==
    CallMethod(cosmo, "Onu", z)

\* components/neutrino.py:41-56  @singledispatch def rho_neutrino: return cosmo.Onu(z) * cosmo.critical_density(z)
rho_neutrino(cosmo, z) ==
    Mul(CallMethod(cosmo, "Onu", z), CallMethod(cosmo, "critical_density", z))

\* components/neutrino.py:59-71  def N_eff: return cosmo.Neff
N_eff(cosmo) ==
    GetAttr(cosmo, "Neff")

\* components/neutrino.py:74-87  def mass_nu: return cosmo.m_nu
mass_nu(cosmo) ==
    GetAttr(cosmo, "m_nu")

\* components/photon.py:13-15  def omega_photon0: return cosmo.Ogamma0
omega_photon0(cosmo) ==
    GetAttr(cosmo, "Ogamma0")

\* components/photon.py:18-21  @singledispatch def rho_photon0: return cosmo.Ogamma0 * cosmo.critical_density0
rho_photon0(cosmo) ==
    Mul(GetAttr(cosmo, "Ogamma0"), GetAttr(cosmo, "critical_density0"))

\* components/photon.py:24-38  def omega_photon: return cosmo.Ogamma(z)
omega_photon(cosmo, z) ==
    CallMethod(cosmo, "Ogamma", z)

\* rho_photon wrapping whatever the accessors raise in an exception of its own.
rho_photon_wrapping(cosmo, z) ==
    LET r == Mul(CallMethod(cosmo, "Ogamma", z), CallMethod(cosmo, "critical_density", z))
    IN  IF r.ok THEN r
        ELSE Raise("ValueError", "cannot compute the photon density",
                   <<"components", "rho_photon">>)

\* components/photon.py:41-56  @singledispatch def rho_photon: return cosmo.Ogamma(z) * cosmo.critical_density(z)
rho_photon(cosmo, z) ==
    Mul(CallMethod(cosmo, "Ogamma", z), CallMethod(cosmo, "critical_density", z))

\* Functions that read one property (no redshift argument).
PropertyFns ==
    {<<"background", "scale_factor0">>, <<"background", "omega_total0">>,
    <<"background", "critical_density0">>, <<"standard", "hubble_parameter0">>,
    <<"standard", "dimensionless_hubble_parameter0">>,
    <<"standard", "hubble_distance">>, <<"standard", "hubble_time">>,
    <<"standard", "Tcmb0">>, <<"standard", "omega_curve0">>,
    <<"standard", "omega_matter0">>, <<"standard", "omega_dm0">>,
    <<"standard", "omega_baryon0">>, <<"standard", "omega_photon0">>,
    <<"standard", "omega_neutrino0">>, <<"standard", "N_eff">>,
    <<"standard", "mass_nu">>, <<"standard", "omega_de0">>,
    <<"components", "omega_curve0">>, <<"components", "omega_de0">>,
    <<"components", "omega_matter0">>, <<"components", "omega_baryon0">>,
    <<"components", "omega_dm0">>, <<"components", "omega_neutrino0">>,
    <<"components", "N_eff">>, <<"components", "mass_nu">>,
    <<"components", "omega_photon0">>}

\* Functions that call one accessor with the caller's redshift.
MethodFns ==
    {<<"background", "scale_factor">>, <<"background", "omega_total">>,
    <<"background", "critical_density">>, <<"background", "age">>,
    <<"background", "lookback_time">>, <<"background", "comoving_distance">>,
    <<"background", "comoving_transverse_distance">>,
    <<"background", "comoving_volume">>,
    <<"background", "differential_comoving_volume">>,
    <<"background", "angular_diameter_distance">>,
    <<"background", "luminosity_distance">>, <<"standard", "hubble_parameter">>,
    <<"standard", "standardized_hubble_function">>,
    <<"standard", "inv_standardized_hubble_function">>, <<"standard", "Tcmb">>,
    <<"standard", "omega_curve">>, <<"standard", "omega_matter">>,
    <<"standard", "omega_dm">>, <<"standard", "omega_baryon">>,
    <<"standard", "omega_photon">>, <<"standard", "omega_neutrino">>,
    <<"standard", "omega_de">>, <<"components", "omega_curve">>,
    <<"components", "omega_de">>, <<"components", "omega_matter">>,
    <<"components", "omega_baryon">>, <<"components", "omega_dm">>,
    <<"components", "omega_neutrino">>, <<"components", "omega_photon">>}

\* The density functions at z = 0.
Rho0Fns ==
    {<<"background", "rho_total0">>, <<"standard", "rho_curve0">>,
    <<"standard", "rho_matter0">>, <<"standard", "rho_dm0">>,
    <<"standard", "rho_baryon0">>, <<"standard", "rho_photon0">>,
    <<"standard", "rho_neutrino0">>, <<"standard", "rho_de0">>,
    <<"components", "rho_curve0">>, <<"components", "rho_de0">>,
    <<"components", "rho_matter0">>, <<"components", "rho_baryon0">>,
    <<"components", "rho_dm0">>, <<"components", "rho_neutrino0">>,
    <<"components", "rho_photon0">>}

\* The redshift-dependent density functions.
RhoZFns ==
    {<<"background", "rho_total">>, <<"standard", "rho_curve">>,
    <<"standard", "rho_matter">>, <<"standard", "rho_dm">>,
    <<"standard", "rho_baryon">>, <<"standard", "rho_photon">>,
    <<"standard", "rho_neutrino">>, <<"standard", "rho_de">>,
    <<"components", "rho_curve">>, <<"components", "rho_de">>,
    <<"components", "rho_matter">>, <<"components", "rho_baryon">>,
    <<"components", "rho_dm">>, <<"components", "rho_neutrino">>,
    <<"components", "rho_photon">>}

\* The functions the source decorates with @singledispatch.
SingleDispatchFns ==
    {<<"background", "rho_total0">>, <<"background", "rho_total">>,
    <<"standard", "rho_dm0">>, <<"standard", "rho_dm">>, <<"standard", "rho_baryon0">>,
    <<"standard", "rho_baryon">>, <<"standard", "rho_photon0">>,
    <<"standard", "rho_photon">>, <<"standard", "rho_neutrino0">>,
    <<"standard", "rho_neutrino">>, <<"standard", "rho_de0">>,
    <<"standard", "rho_de">>, <<"components", "rho_curve0">>,
    <<"components", "rho_curve">>, <<"components", "rho_de0">>,
    <<"components", "rho_de">>, <<"components", "rho_matter0">>,
    <<"components", "rho_matter">>, <<"components", "rho_baryon0">>,
    <<"components", "rho_baryon">>, <<"components", "rho_dm0">>,
    <<"components", "rho_dm">>, <<"components", "rho_neutrino0">>,
    <<"components", "rho_neutrino">>, <<"components", "rho_photon0">>,
    <<"components", "rho_photon">>}

\* Name lookup in cosmology.core.background: the function object bound to a name.
background_module(name, cosmo, z) ==
    CASE name = "scale_factor0" -> scale_factor0(cosmo)
      [] name = "scale_factor" -> scale_factor(cosmo, z)
      [] name = "omega_total0" -> omega_total0(cosmo)
      [] name = "rho_total0" -> rho_total0(cosmo)
      [] name = "omega_total" -> omega_total(cosmo, z)
      [] name = "rho_total" -> rho_total(cosmo, z)
      [] name = "critical_density0" -> critical_density0(cosmo)
      [] name = "critical_density" -> critical_density(cosmo, z)
      [] name = "age" -> age(cosmo, z)
      [] name = "lookback_time" -> lookback_time(cosmo, z)
      [] name = "comoving_distance" -> comoving_distance(cosmo, z)
      [] name = "comoving_transverse_distance" -> comoving_transverse_distance(cosmo, z)
      [] name = "comoving_volume" -> comoving_volume(cosmo, z)
      [] name = "differential_comoving_volume" -> differential_comoving_volume(cosmo, z)
      [] name = "angular_diameter_distance" -> angular_diameter_distance(cosmo, z)
      [] name = "luminosity_distance" -> luminosity_distance(cosmo, z)

\* Name lookup in cosmology.core.standard.
standard_module(name, cosmo, z) ==
    CASE name = "hubble_parameter0" -> standard_hubble_parameter0(cosmo)
      [] name = "dimensionless_hubble_parameter0" -> standard_dimensionless_hubble_parameter0(cosmo)
      [] name = "hubble_distance" -> standard_hubble_distance(cosmo)
      [] name = "hubble_time" -> standard_hubble_time(cosmo)
      [] name = "hubble_parameter" -> standard_hubble_parameter(cosmo, z)
      [] name = "standardized_hubble_function" -> standard_standardized_hubble_function(cosmo, z)
      [] name = "inv_standardized_hubble_function" -> standard_inv_standardized_hubble_function(cosmo, z)
      [] name = "Tcmb0" -> standard_Tcmb0(cosmo)
      [] name = "Tcmb" -> standard_Tcmb(cosmo, z)
      [] name = "omega_curve0" -> standard_omega_curve0(cosmo)
      [] name = "rho_curve0" -> standard_rho_curve0(cosmo)
      [] name = "omega_curve" -> standard_omega_curve(cosmo, z)
      [] name = "rho_curve" -> standard_rho_curve(cosmo, z)
      [] name = "omega_matter0" -> standard_omega_matter0(cosmo)
      [] name = "rho_matter0" -> standard_rho_matter0(cosmo)
      [] name = "omega_matter" -> standard_omega_matter(cosmo, z)
      [] name = "rho_matter" -> standard_rho_matter(cosmo, z)
      [] name = "omega_dm0" -> standard_omega_dm0(cosmo)
      [] name = "rho_dm0" -> standard_rho_dm0(cosmo)
      [] name = "omega_dm" -> standard_omega_dm(cosmo, z)
      [] name = "rho_dm" -> standard_rho_dm(cosmo, z)
      [] name = "omega_baryon0" -> standard_omega_baryon0(cosmo)
      [] name = "rho_baryon0" -> standard_rho_baryon0(cosmo)
      [] name = "omega_baryon" -> standard_omega_baryon(cosmo, z)
      [] name = "rho_baryon" -> standard_rho_baryon(cosmo, z)
      [] name = "omega_photon0" -> standard_omega_photon0(cosmo)
      [] name = "rho_photon0" -> standard_rho_photon0(cosmo)
      [] name = "omega_photon" -> standard_omega_photon(cosmo, z)
      [] name = "rho_photon" -> standard_rho_photon(cosmo, z)
      [] name = "omega_neutrino0" -> standard_omega_neutrino0(cosmo)
      [] name = "rho_neutrino0" -> standard_rho_neutrino0(cosmo)
      [] name = "omega_neutrino" -> standard_omega_neutrino(cosmo, z)
      [] name = "rho_neutrino" -> standard_rho_neutrino(cosmo, z)
      [] name = "N_eff" -> standard_N_eff(cosmo)
      [] name = "mass_nu" -> standard_mass_nu(cosmo)
      [] name = "omega_de0" -> standard_omega_de0(cosmo)
      [] name = "rho_de0" -> standard_rho_de0(cosmo)
      [] name = "omega_de" -> standard_omega_de(cosmo, z)
      [] name = "rho_de" -> standard_rho_de(cosmo, z)

\* Name lookup in the cosmology.core.components modules (re-exported by __init__).
components_module(name, cosmo, z) ==
    CASE name = "omega_curve0" -> omega_curve0(cosmo)
      [] name = "rho_curve0" -> rho_curve0(cosmo)
      [] name = "omega_curve" -> omega_curve(cosmo, z)
      [] name = "rho_curve" -> rho_curve(cosmo, z)
      [] name = "omega_de0" -> omega_de0(cosmo)
      [] name = "rho_de0" -> rho_de0(cosmo)
      [] name = "omega_de" -> omega_de(cosmo, z)
      [] name = "rho_de" -> rho_de(cosmo, z)
      [] name = "omega_matter0" -> omega_matter0(cosmo)
      [] name = "rho_matter0" -> rho_matter0(cosmo)
      [] name = "omega_matter" -> omega_matter(cosmo, z)
      [] name = "rho_matter" -> rho_matter(cosmo, z)
      [] name = "omega_baryon0" -> omega_baryon0(cosmo)
      [] name = "rho_baryon0" -> rho_baryon0(cosmo)
      [] name = "omega_baryon" -> omega_baryon(cosmo, z)
      [] name = "rho_baryon" -> rho_baryon(cosmo, z)
      [] name = "omega_dm0" -> omega_dm0(cosmo)
      [] name = "rho_dm0" -> rho_dm0(cosmo)
      [] name = "omega_dm" -> omega_dm(cosmo, z)
      [] name = "rho_dm" -> rho_dm(cosmo, z)
      [] name = "omega_neutrino0" -> omega_neutrino0(cosmo)
      [] name = "rho_neutrino0" -> rho_neutrino0(cosmo)
      [] name = "omega_neutrino" -> omega_neutrino(cosmo, z)
      [] name = "rho_neutrino" -> rho_neutrino(cosmo, z)
      [] name = "N_eff" -> N_eff(cosmo)
      [] name = "mass_nu" -> mass_nu(cosmo)
      [] name = "omega_photon0" -> omega_photon0(cosmo)
      [] name = "rho_photon0" -> rho_photon0(cosmo)
      [] name = "omega_photon" -> omega_photon(cosmo, z)
      [] name = "rho_photon" -> rho_photon(cosmo, z)

\* The accessor reads of each function's body, in the order the return
\* expression makes them: a property read (attr) or a call with the redshift (meth).
Body(f) ==
    CASE f = <<"background", "scale_factor0">> -> <<<<"attr", "scale_factor0">>>>
      [] f = <<"background", "scale_factor">> -> <<<<"meth", "scale_factor">>>>
      [] f = <<"background", "omega_total0">> -> <<<<"attr", "Otot0">>>>
      [] f = <<"background", "rho_total0">> -> <<<<"attr", "Otot0">>, <<"attr", "critical_density0">>>>
      [] f = <<"background", "omega_total">> -> <<<<"meth", "Otot">>>>
      [] f = <<"background", "rho_total">> -> <<<<"meth", "Otot">>, <<"meth", "critical_density">>>>
      [] f = <<"background", "critical_density0">> -> <<<<"attr", "critical_density0">>>>
      [] f = <<"background", "critical_density">> -> <<<<"meth", "critical_density">>>>
      [] f = <<"background", "age">> -> <<<<"meth", "age">>>>
      [] f = <<"background", "lookback_time">> -> <<<<"meth", "lookback_time">>>>
      [] f = <<"background", "comoving_distance">> -> <<<<"meth", "comoving_distance">>>>
      [] f = <<"background", "comoving_transverse_distance">> -> <<<<"meth", "comoving_transverse_distance">>>>
      [] f = <<"background", "comoving_volume">> -> <<<<"meth", "comoving_volume">>>>
      [] f = <<"background", "differential_comoving_volume">> -> <<<<"meth", "differential_comoving_volume">>>>
      [] f = <<"background", "angular_diameter_distance">> -> <<<<"meth", "angular_diameter_distance">>>>
      [] f = <<"background", "luminosity_distance">> -> <<<<"meth", "luminosity_distance">>>>
      [] f = <<"standard", "hubble_parameter0">> -> <<<<"attr", "H0">>>>
      [] f = <<"standard", "dimensionless_hubble_parameter0">> -> <<<<"attr", "h">>>>
      [] f = <<"standard", "hubble_distance">> -> <<<<"attr", "hubble_distance">>>>
      [] f = <<"standard", "hubble_time">> -> <<<<"attr", "hubble_time">>>>
      [] f = <<"standard", "hubble_parameter">> -> <<<<"meth", "H">>>>
      [] f = <<"standard", "standardized_hubble_function">> -> <<<<"meth", "efunc">>>>
      [] f = <<"standard", "inv_standardized_hubble_function">> -> <<<<"meth", "inv_efunc">>>>
      [] f = <<"standard", "Tcmb0">> -> <<<<"attr", "Tcmb0">>>>
      [] f = <<"standard", "Tcmb">> -> <<<<"meth", "Tcmb">>>>
      [] f = <<"standard", "omega_curve0">> -> <<<<"attr", "Ok0">>>>
      [] f = <<"standard", "rho_curve0">> -> <<<<"attr", "Ok0">>, <<"attr", "critical_density0">>>>
      [] f = <<"standard", "omega_curve">> -> <<<<"meth", "Ok">>>>
      [] f = <<"standard", "rho_curve">> -> <<<<"meth", "Ok">>, <<"meth", "critical_density">>>>
      [] f = <<"standard", "omega_matter0">> -> <<<<"attr", "Om0">>>>
      [] f = <<"standard", "rho_matter0">> -> <<<<"attr", "Om0">>, <<"attr", "critical_density0">>>>
      [] f = <<"standard", "omega_matter">> -> <<<<"meth", "Om">>>>
      [] f = <<"standard", "rho_matter">> -> <<<<"meth", "Om">>, <<"meth", "critical_density">>>>
      [] f = <<"standard", "omega_dm0">> -> <<<<"attr", "Odm0">>>>
      [] f = <<"standard", "rho_dm0">> -> <<<<"attr", "Odm0">>, <<"attr", "critical_density0">>>>
      [] f = <<"standard", "omega_dm">> -> <<<<"meth", "Odm">>>>
      [] f = <<"standard", "rho_dm">> -> <<<<"meth", "Odm">>, <<"meth", "critical_density">>>>
      [] f = <<"standard", "omega_baryon0">> -> <<<<"attr", "Ob0">>>>
      [] f = <<"standard", "rho_baryon0">> -> <<<<"attr", "Ob0">>, <<"attr", "critical_density0">>>>
      [] f = <<"standard", "omega_baryon">> -> <<<<"meth", "Ob">>>>
      [] f = <<"standard", "rho_baryon">> -> <<<<"meth", "Ob">>, <<"meth", "critical_density">>>>
      [] f = <<"standard", "omega_photon0">> -> <<<<"attr", "Ogamma0">>>>
      [] f = <<"standard", "rho_photon0">> -> <<<<"attr", "Ogamma0">>, <<"attr", "critical_density0">>>>
      [] f = <<"standard", "omega_photon">> -> <<<<"meth", "Ogamma">>>>
      [] f = <<"standard", "rho_photon">> -> <<<<"meth", "Ogamma">>, <<"meth", "critical_density">>>>
      [] f = <<"standard", "omega_neutrino0">> -> <<<<"attr", "Onu0">>>>
      [] f = <<"standard", "rho_neutrino0">> -> <<<<"attr", "Onu0">>, <<"attr", "critical_density0">>>>
      [] f = <<"standard", "omega_neutrino">> -> <<<<"meth", "Onu">>>>
      [] f = <<"standard", "rho_neutrino">> -> <<<<"meth", "Onu">>, <<"meth", "critical_density">>>>
      [] f = <<"standard", "N_eff">> -> <<<<"attr", "Neff">>>>
      [] f = <<"standard", "mass_nu">> -> <<<<"attr", "m_nu">>>>
      [] f = <<"standard", "omega_de0">> -> <<<<"attr", "Ode0">>>>
      [] f = <<"standard", "rho_de0">> -> <<<<"attr", "Ode0">>, <<"attr", "critical_density0">>>>
      [] f = <<"standard", "omega_de">> -> <<<<"meth", "Ode">>>>
      [] f = <<"standard", "rho_de">> -> <<<<"meth", "Ode">>, <<"meth", "critical_density">>>>
      [] f = <<"components", "omega_curve0">> -> <<<<"attr", "Ok0">>>>
      [] f = <<"components", "rho_curve0">> -> <<<<"attr", "Ok0">>, <<"attr", "critical_density0">>>>
      [] f = <<"components", "omega_curve">> -> <<<<"meth", "Ok">>>>
      [] f = <<"components", "rho_curve">> -> <<<<"meth", "Ok">>, <<"meth", "critical_density">>>>
      [] f = <<"components", "omega_de0">> -> <<<<"attr", "Ode0">>>>
      [] f = <<"components", "rho_de0">> -> <<<<"attr", "Ode0">>, <<"attr", "critical_density0">>>>
      [] f = <<"components", "omega_de">> -> <<<<"meth", "Ode">>>>
      [] f = <<"components", "rho_de">> -> <<<<"meth", "Ode">>, <<"meth", "critical_density">>>>
      [] f = <<"components", "omega_matter0">> -> <<<<"attr", "Om0">>>>
      [] f = <<"components", "rho_matter0">> -> <<<<"attr", "Om0">>, <<"attr", "critical_density0">>>>
      [] f = <<"components", "omega_matter">> -> <<<<"meth", "Om">>>>
      [] f = <<"components", "rho_matter">> -> <<<<"meth", "Om">>, <<"meth", "critical_density">>>>
      [] f = <<"components", "omega_baryon0">> -> <<<<"attr", "Ob0">>>>
      [] f = <<"components", "rho_baryon0">> -> <<<<"attr", "Ob0">>, <<"attr", "critical_density0">>>>
      [] f = <<"components", "omega_baryon">> -> <<<<"meth", "Ob">>>>
      [] f = <<"components", "rho_baryon">> -> <<<<"meth", "Ob">>, <<"meth", "critical_density">>>>
      [] f = <<"components", "omega_dm0">> -> <<<<"attr", "Odm0">>>>
      [] f = <<"components", "rho_dm0">> -> <<<<"attr", "Odm0">>, <<"attr", "critical_density0">>>>
      [] f = <<"components", "omega_dm">> -> <<<<"meth", "Odm">>>>
      [] f = <<"components", "rho_dm">> -> <<<<"meth", "Odm">>, <<"meth", "critical_density">>>>
      [] f = <<"components", "omega_neutrino0">> -> <<<<"attr", "Onu0">>>>
      [] f = <<"components", "rho_neutrino0">> -> <<<<"attr", "Onu0">>, <<"attr", "critical_density0">>>>
      [] f = <<"components", "omega_neutrino">> -> <<<<"meth", "Onu">>>>
      [] f = <<"components", "rho_neutrino">> -> <<<<"meth", "Onu">>, <<"meth", "critical_density">>>>
      [] f = <<"components", "N_eff">> -> <<<<"attr", "Neff">>>>
      [] f = <<"components", "mass_nu">> -> <<<<"attr", "m_nu">>>>
      [] f = <<"components", "omega_photon0">> -> <<<<"attr", "Ogamma0">>>>
      [] f = <<"components", "rho_photon0">> -> <<<<"attr", "Ogamma0">>, <<"attr", "critical_density0">>>>
      [] f = <<"components", "omega_photon">> -> <<<<"meth", "Ogamma">>>>
      [] f = <<"components", "rho_photon">> -> <<<<"meth", "Ogamma">>, <<"meth", "critical_density">>>>

\* ---------------------------------------------------------------------
\* functools.singledispatch, as the decorated functions use it.
\* ---------------------------------------------------------------------

\* The implementations a user registers on a density function.
Specializations == {"special1", "special2"}

SpecializationIndex == [special1 |-> 1, special2 |-> 2]

\* What a registered implementation returns: a user's formula, which reads the
\* same object and redshift and need not agree with the generic product.
Specialized(impl, cosmo, z) ==
    Ok(0 - ((heap[cosmo].seed * 10 + SpecializationIndex[impl]) * 10
              + (IF z = NoZ THEN 0 ELSE arrays[z].v)))

\* The registry of a freshly decorated function: registry[object] = func.
FreshRegistry == [c \in {"object"} |-> "default"]

\* A registry that keeps the implementation a class already has.
Put_keep_first(reg, cls, impl) ==
    [c \in DOMAIN reg \cup {cls} |-> IF c \in DOMAIN reg THEN reg[c] ELSE impl]

\* registry[cls] = func
Put(reg, cls, impl) ==
    [c \in DOMAIN reg \cup {cls} |-> IF c = cls THEN impl ELSE reg[c]]

\* _find_impl that knows the class itself only: every other class gets the default.
find_impl_exact(reg, cls) == Ok(reg["object"])

\* The registered abstract base classes that the k-th class of cls.__mro__
\* introduces: those it is a virtual subclass of.  _compose_mro puts them into
\* the resolution order right after that class.
Introduced(reg, cls, k) == VirtualBases(MRO(cls)[k]) \cap DOMAIN reg

\* _find_impl(cls, registry): the match is the first class of the composed
\* resolution order that has an entry.  When the match is an abstract base
\* class that is not in cls.__mro__ and the next class of the order is another
\* one, with an entry and unrelated to it, _find_impl raises RuntimeError.
find_impl(reg, cls) ==
    LET mro == MRO(cls)
        i   == CHOOSE k \in 1..Len(mro) :
                   /\ mro[k] \in DOMAIN reg \/ Introduced(reg, cls, k) # {}
                   /\ \A j \in 1..(k - 1) :
                          mro[j] \notin DOMAIN reg /\ Introduced(reg, cls, j) = {}
        abcs == Introduced(reg, cls, i)
    IN  IF mro[i] \in DOMAIN reg THEN Ok(reg[mro[i]])
        ELSE IF \E t, u \in abcs : t # u /\ ~issubclass(t, u) /\ ~issubclass(u, t)
        THEN Raise("RuntimeError", "Ambiguous dispatch", <<"functools", "_find_impl">>)
        ELSE Ok(reg[CHOOSE t \in abcs : \A u \in abcs : issubclass(t, u)])

\* generic_func.dispatch(cls)
dispatch(f, cls) ==
    IF cls \in DOMAIN registry[f]
    THEN Ok(registry[f][cls])
    ELSE find_impl(registry[f], cls)

\* The function a module binds to the name f[2].
Function(f, cosmo, z) ==
    CASE f[1] = "background" -> background_module(f[2], cosmo, z)
      [] f[1] = "standard"   -> standard_module(f[2], cosmo, z)
      [] f[1] = "components" -> components_module(f[2], cosmo, z)

\* What the wrapper of a decorated function does with what dispatch found: it
\* calls the implementation, or lets dispatch's exception through.  ran names
\* the implementation that ran ("none" when dispatch raised).
Run(found, f, cosmo, z) ==
    IF ~found.ok THEN [ran |-> "none", res |-> found]
    ELSE [ran |-> found.val,
          res |-> IF found.val = "default" THEN Function(f, cosmo, z)
                  ELSE Specialized(found.val, cosmo, z)]

\* A wrapper that dispatches on the class of the last positional argument: the
\* array's, when the function takes a redshift.
Invoke_on_last_argument(f, cosmo, z) ==
    IF f \in SingleDispatchFns
    THEN Run(dispatch(f, IF z = NoZ THEN heap[cosmo].cls
                         ELSE IF arrays[z].xp = "numpy" THEN "ndarray" ELSE "Array"),
             f, cosmo, z)
    ELSE [ran |-> "default", res |-> Function(f, cosmo, z)]

\* Calling f(cosmo[, z]): a decorated function is singledispatch's wrapper,
\* which runs dispatch(args[0].__class__)(*args); any other is the function
\* itself.
Invoke(f, cosmo, z) ==
    IF f \in SingleDispatchFns
    THEN Run(dispatch(f, heap[cosmo].cls), f, cosmo, z)
    ELSE [ran |-> "default", res |-> Function(f, cosmo, z)]

\* ---------------------------------------------------------------------
\* get_namespace (core.py).
\* ---------------------------------------------------------------------

\* isinstance(x, CosmologyAPI)
IsCosmologyAPI(x) == heap[x].api

\* x.__cosmology_namespace__(api_version=api_version)
CosmologyNamespace(x, api_version) ==
    IF api_version \in heap[x].rejects
    THEN Raise(heap[x].failure, "unsupported api_version",
               <<x, "__cosmology_namespace__">>)
    ELSE Ok([lib |-> heap[x].xp, api_version |-> api_version])

\* The set comprehension of get_namespace, from the i-th input on: the inputs
\* are visited in order and the first accessor that raises ends it.
RECURSIVE Namespaces(_, _, _)
Namespaces(cosmos, api_version, i) ==
    IF i > Len(cosmos) THEN Ok({})
    ELSE IF ~IsCosmologyAPI(cosmos[i]) THEN Namespaces(cosmos, api_version, i + 1)
    ELSE LET ns == CosmologyNamespace(cosmos[i], api_version)
         IN  IF ~ns.ok THEN ns
             ELSE LET rest == Namespaces(cosmos, api_version, i + 1)
                  IN  IF ~rest.ok THEN rest ELSE Ok({ns.val} \cup rest.val)

\* A comprehension over set(cosmos): every distinct object is asked once.
RECURSIVE Queries_once(_, _, _)
Queries_once(cosmos, api_version, i) ==
    IF i > Len(cosmos) THEN <<>>
    ELSE IF \/ ~IsCosmologyAPI(cosmos[i])
            \/ \E j \in 1..(i - 1) : cosmos[j] = cosmos[i]
    THEN Queries_once(cosmos, api_version, i + 1)
    ELSE <<<<cosmos[i], api_version>>>>
             \o (IF CosmologyNamespace(cosmos[i], api_version).ok
                 THEN Queries_once(cosmos, api_version, i + 1) ELSE <<>>)

\* The calls of __cosmology_namespace__ that the comprehension makes, from the
\* i-th input on: the object asked and the api_version handed to it, in the
\* order of the arguments, up to the first call that raises.
RECURSIVE Queries(_, _, _)
Queries(cosmos, api_version, i) ==
    IF i > Len(cosmos) THEN <<>>
    ELSE IF ~IsCosmologyAPI(cosmos[i]) THEN Queries(cosmos, api_version, i + 1)
    ELSE <<<<cosmos[i], api_version>>>>
             \o (IF CosmologyNamespace(cosmos[i], api_version).ok
                 THEN Queries(cosmos, api_version, i + 1) ELSE <<>>)

\* get_namespace that settles a conflict by taking one of the namespaces.
get_namespace_any(cosmos, api_version) ==
    LET namespaces == Namespaces(cosmos, api_version, 1)
    IN  IF ~namespaces.ok THEN namespaces
        ELSE IF namespaces.val = {}
        THEN Raise("ValueError", "Unrecognized cosmology input",
                   <<"core", "get_namespace">>)
        ELSE Ok(CHOOSE n \in namespaces.val : TRUE)

\* get_namespace with an exception class of its own for unrecognized input.
get_namespace_typed(cosmos, api_version) ==
    LET namespaces == Namespaces(cosmos, api_version, 1)
    IN  IF ~namespaces.ok THEN namespaces
        ELSE IF namespaces.val = {}
        THEN Raise("TypeError", "Unrecognized cosmology input",
                   <<"core", "get_namespace">>)
        ELSE IF Cardinality(namespaces.val) # 1
        THEN Raise("ValueError", "Multiple namespaces for cosmology inputs",
                   <<"core", "get_namespace">>)
        ELSE Ok(CHOOSE n \in namespaces.val : TRUE)

get_namespace(cosmos, api_version) ==
    LET namespaces == Namespaces(cosmos, api_version, 1)
    IN  IF ~namespaces.ok THEN namespaces
        ELSE IF namespaces.val = {}
        THEN Raise("ValueError", "Unrecognized cosmology input",
                   <<"core", "get_namespace">>)
        ELSE IF Cardinality(namespaces.val) # 1
        THEN Raise("ValueError", "Multiple namespaces for cosmology inputs",
                   <<"core", "get_namespace">>)
        ELSE Ok(CHOOSE n \in namespaces.val : TRUE)

\* The argument lists a caller passes to get_namespace.
ArgLists == UNION {[1..n -> Objects] : n \in 0..MaxInputs}

\* ---------------------------------------------------------------------
\* The operations.  A caller runs one operation at a time: it calls, holds the
\* outcome (last), and lets go of it before the next operation.
\* ---------------------------------------------------------------------

Init ==
    /\ heap = InitialHeap
    /\ arrays = InitialArrays
    /\ registry = [f \in SingleDispatchFns |-> FreshRegistry]
    /\ last = [op |-> "none"]
    /\ running = [t \in Threads |-> [pc |-> "idle"]]

\* The caller holds no result: it is between two operations.
Idle == last.op = "none"

\* What a call of f hands to the caller.
Called(f, cosmo, z) ==
    LET r == Invoke(f, cosmo, z)
    IN  [op |-> "call", fn |-> f, cosmo |-> cosmo, z |-> z,
         ran |-> r.ran, res |-> r.res]

\* A caller reads a quantity that takes no redshift.
CallPropertyFn ==
    /\ Idle
    /\ \E f \in PropertyFns, cosmo \in Cosmologies :
           /\ last' = Called(f, cosmo, NoZ)
           /\ UNCHANGED <<heap, arrays, registry, running>>

\* A caller reads a quantity at a redshift.
CallMethodFn ==
    /\ Idle
    /\ \E f \in MethodFns, cosmo \in Cosmologies, z \in Arrays :
           /\ last' = Called(f, cosmo, z)
           /\ UNCHANGED <<heap, arrays, registry, running>>

\* A caller asks for a density at z = 0.
CallRho0Fn ==
    /\ Idle
    /\ \E f \in Rho0Fns, cosmo \in Cosmologies :
           /\ last' = Called(f, cosmo, NoZ)
           /\ UNCHANGED <<heap, arrays, registry, running>>

\* A wrapper that keeps what dispatch found for the class of the argument in
\* the registry itself.
CallRhoZFn_memoizing ==
    /\ Idle
    /\ \E f \in RhoZFns, cosmo \in Cosmologies, z \in Arrays :
           /\ last' = Called(f, cosmo, z)
           /\ registry' = IF f \in SingleDispatchFns /\ dispatch(f, heap[cosmo].cls).ok
                          THEN [registry EXCEPT ![f] =
                                   Put(@, heap[cosmo].cls, dispatch(f, heap[cosmo].cls).val)]
                          ELSE registry
           /\ UNCHANGED <<heap, arrays, running>>

\* A caller asks for a density at a redshift.
CallRhoZFn ==
    /\ Idle
    /\ \E f \in RhoZFns, cosmo \in Cosmologies, z \in Arrays :
           /\ last' = Called(f, cosmo, z)
           /\ UNCHANGED <<heap, arrays, registry, running>>

\* The classes a function has a specialization registered for.
Specialized_classes(f) == DOMAIN registry[f] \ {"object"}

\* The exploration registers on one decorated function per behaviour, for at
\* most MaxRegistrations classes; re-registering a class is always possible.
MayRegister(f, cls) ==
    /\ \A g \in SingleDispatchFns \ {f} : registry[g] = FreshRegistry
    /\ \/ cls \in Specialized_classes(f)
       \/ Cardinality(Specialized_classes(f)) < MaxRegistrations

\* register with one registry per function name, shared by the modules that
\* define a function of that name.
Register_shared ==
    /\ Idle
    /\ \E f \in Rho0Fns \cup RhoZFns, cls \in RegistrationClasses, impl \in Specializations :
           /\ IF f \in SingleDispatchFns
              THEN /\ MayRegister(f, cls)
                   /\ registry' = [g \in DOMAIN registry |->
                                      IF g[2] = f[2] THEN Put(registry[g], cls, impl)
                                      ELSE registry[g]]
                   /\ last' = [op |-> "register", fn |-> f, cls |-> cls, impl |-> impl,
                               res |-> Ok(impl)]
              ELSE /\ registry' = registry
                   /\ last' = [op |-> "register", fn |-> f, cls |-> cls, impl |-> impl,
                               res |-> Raise("AttributeError",
                                             "'function' object has no attribute 'register'",
                                             <<"python", "getattr">>)]
           /\ UNCHANGED <<heap, arrays, running>>

\* f.register(cls, impl): on a decorated function singledispatch's register
\* stores the implementation; an undecorated function has no attribute
\* register and the attribute lookup raises AttributeError.
Register ==
    /\ Idle
    /\ \E f \in Rho0Fns \cup RhoZFns, cls \in RegistrationClasses, impl \in Specializations :
           /\ IF f \in SingleDispatchFns
              THEN /\ MayRegister(f, cls)
                   /\ registry' = [registry EXCEPT ![f] = Put(@, cls, impl)]
                   /\ last' = [op |-> "register", fn |-> f, cls |-> cls, impl |-> impl,
                               res |-> Ok(impl)]
              ELSE /\ registry' = registry
                   /\ last' = [op |-> "register", fn |-> f, cls |-> cls, impl |-> impl,
                               res |-> Raise("AttributeError",
                                             "'function' object has no attribute 'register'",
                                             <<"python", "getattr">>)]
           /\ UNCHANGED <<heap, arrays, running>>

\* get_namespace binding every recognized input to the namespace it settled on.
GetNamespace_binding ==
    /\ Idle
    /\ \E cosmos \in ArgLists, api_version \in ApiVersions :
           LET res == get_namespace(cosmos, api_version)
           IN  /\ last' = [op |-> "get_namespace", cosmos |-> cosmos,
                           api_version |-> api_version, res |-> res,
                           queries |-> Queries(cosmos, api_version, 1)]
               /\ heap' = [o \in Objects |->
                              IF res.ok /\ heap[o].api /\ \E i \in 1..Len(cosmos) : cosmos[i] = o
                              THEN [heap[o] EXCEPT !.rejects = {}]
                              ELSE heap[o]]
               /\ UNCHANGED <<arrays, registry, running>>

\* A caller resolves the namespace of some objects; queries is the record of
\* the calls of __cosmology_namespace__ it made on them.
GetNamespace ==
    /\ Idle
    /\ \E cosmos \in ArgLists, api_version \in ApiVersions :
           /\ last' = [op |-> "get_namespace", cosmos |-> cosmos,
                       api_version |-> api_version,
                       res |-> get_namespace(cosmos, api_version),
                       queries |-> Queries(cosmos, api_version, 1)]
           /\ UNCHANGED <<heap, arrays, registry, running>>

\* The operation has ended: the caller takes what it got, and nothing of the
\* call remains.
Return ==
    /\ ~Idle
    /\ last' = [op |-> "none"]
    /\ UNCHANGED <<heap, arrays, registry, running>>

Next ==
    \/ CallPropertyFn
    \/ CallMethodFn
    \/ CallRho0Fn
    \/ CallRhoZFn
    \/ Register
    \/ GetNamespace
    \/ Return

Spec == Init /\ [][Next]_vars

\* ---------------------------------------------------------------------
\* Threads.  Each thread runs one call at a time, and the calls of different
\* threads interleave between any two accessor reads: nothing in the layer
\* takes a lock.  A call is the same code as above, one step per read.
\* ---------------------------------------------------------------------

\* The functions the threads call: a density at z = 0 and its twin in the
\* other module, a density at a redshift, and two direct reads.
ConcurrentFns ==
    {<<"components", "rho_curve0">>, <<"standard", "rho_curve0">>,
     <<"components", "rho_matter">>, <<"background", "age">>,
     <<"standard", "Tcmb0">>}

\* The objects the threads share and hand to get_namespace.
SharedObjects == {"c1", "c2", "c4", "x1"}

\* The argument lists the threads pass to get_namespace.
SharedArgLists == UNION {[1..n -> SharedObjects] : n \in 0..MaxInputs}

\* The registries when the threads start: specializations were registered
\* while the process was single-threaded, rho_matter has one for LCDM and
\* rho_curve0 one for each of the two abstract base classes.
RegistryAtStart ==
    [f \in SingleDispatchFns |->
        CASE f = <<"components", "rho_matter">> ->
                 Put(FreshRegistry, "LCDM", "special1")
          [] f = <<"components", "rho_curve0">> ->
                 Put(Put(FreshRegistry, "Evolving", "special1"), "Tabulated", "special2")
          [] OTHER -> FreshRegistry]

InitThreads ==
    /\ heap = InitialHeap
    /\ arrays = InitialArrays
    /\ registry = RegistryAtStart
    /\ last = [op |-> "none"]
    /\ running = [t \in Threads |-> [pc |-> "idle"]]

\* The redshift arguments of a function: none, or one of the arrays.
Redshifts(f) == IF f \in PropertyFns \cup Rho0Fns THEN {NoZ} ELSE Arrays

\* A thread calls f(cosmo[, z]): the wrapper of a decorated function
\* dispatches on the class of cosmo, and dispatch's exception ends the call.
BeginCall ==
    \E t \in Threads, f \in ConcurrentFns, cosmo \in Cosmologies :
    \E z \in Redshifts(f) :
        LET found == IF f \in SingleDispatchFns THEN dispatch(f, heap[cosmo].cls)
                     ELSE Ok("default")
        IN  /\ running[t].pc = "idle"
            /\ running' = [running EXCEPT ![t] =
                   IF found.ok
                   THEN [pc |-> "body", op |-> "call", fn |-> f, cosmo |-> cosmo, z |-> z,
                         impl |-> found.val, vals |-> <<>>]
                   ELSE [pc |-> "done", op |-> "call", fn |-> f, cosmo |-> cosmo, z |-> z,
                         res |-> found]]
            /\ UNCHANGED <<heap, arrays, registry, last>>

\* The product of the values read.
RECURSIVE Product(_)
Product(vals) == IF Len(vals) = 1 THEN vals[1] ELSE vals[1] * Product(Tail(vals))

\* The generic body of a function makes its next accessor read; an exception
\* of the accessor ends the call, and after the last read the call returns
\* the value read, or the product of the two.
ReadAccessor ==
    \E t \in Threads :
        /\ running[t].pc = "body"
        /\ running[t].impl = "default"
        /\ LET r    == running[t]
               body == Body(r.fn)
               acc  == body[Len(r.vals) + 1]
               read == IF acc[1] = "attr" THEN GetAttr(r.cosmo, acc[2])
                       ELSE CallMethod(r.cosmo, acc[2], r.z)
               done == [pc |-> "done", op |-> "call", fn |-> r.fn, cosmo |-> r.cosmo,
                        z |-> r.z]
           IN  running' = [running EXCEPT ![t] =
                   IF ~read.ok THEN done @@ [res |-> read]
                   ELSE IF Len(r.vals) + 1 = Len(body)
                   THEN done @@ [res |-> Ok(Product(Append(r.vals, read.val)))]
                   ELSE [r EXCEPT !.vals = Append(@, read.val)]]
        /\ UNCHANGED <<heap, arrays, registry, last>>

\* The registered implementation that dispatch found runs.
RunSpecialization ==
    \E t \in Threads :
        /\ running[t].pc = "body"
        /\ running[t].impl # "default"
        /\ LET r == running[t]
           IN  running' = [running EXCEPT ![t] =
                   [pc |-> "done", op |-> "call", fn |-> r.fn, cosmo |-> r.cosmo,
                    z |-> r.z, res |-> Specialized(r.impl, r.cosmo, r.z)]]
        /\ UNCHANGED <<heap, arrays, registry, last>>

\* A thread calls get_namespace(*cosmos, api_version=api_version): the set
\* comprehension starts with an empty set of its own.
BeginGetNamespace ==
    \E t \in Threads, cosmos \in SharedArgLists, api_version \in ApiVersions :
        /\ running[t].pc = "idle"
        /\ running' = [running EXCEPT ![t] =
               [pc |-> "collect", op |-> "get_namespace", cosmos |-> cosmos,
                api_version |-> api_version, i |-> 1, namespaces |-> {}]]
        /\ UNCHANGED <<heap, arrays, registry, last>>

\* The comprehension of every thread that is collecting takes the namespace
\* the object reports into one set they all share.
Collect_shared ==
    \E t \in Threads :
        /\ running[t].pc = "collect"
        /\ running[t].i <= Len(running[t].cosmos)
        /\ LET r == running[t]
               x == r.cosmos[r.i]
               ns == CosmologyNamespace(x, r.api_version)
           IN  running' = [u \in Threads |->
                   IF u = t
                   THEN IF ~IsCosmologyAPI(x) THEN [r EXCEPT !.i = @ + 1]
                        ELSE IF ~ns.ok
                        THEN [pc |-> "done", op |-> "get_namespace", cosmos |-> r.cosmos,
                              api_version |-> r.api_version, res |-> ns]
                        ELSE [r EXCEPT !.i = @ + 1, !.namespaces = @ \cup {ns.val}]
                   ELSE IF running[u].pc = "collect" /\ IsCosmologyAPI(x) /\ ns.ok
                   THEN [running[u] EXCEPT !.namespaces = @ \cup {ns.val}]
                   ELSE running[u]]
        /\ UNCHANGED <<heap, arrays, registry, last>>

\* The comprehension visits its next input: an object that is not a
\* CosmologyAPI is skipped, any other is asked for its namespace, and an
\* exception of the accessor ends the call.
Collect ==
    \E t \in Threads :
        /\ running[t].pc = "collect"
        /\ running[t].i <= Len(running[t].cosmos)
        /\ LET r == running[t]
               x == r.cosmos[r.i]
               ns == CosmologyNamespace(x, r.api_version)
           IN  running' = [running EXCEPT ![t] =
                   IF ~IsCosmologyAPI(x) THEN [r EXCEPT !.i = @ + 1]
                   ELSE IF ~ns.ok
                   THEN [pc |-> "done", op |-> "get_namespace", cosmos |-> r.cosmos,
                         api_version |-> r.api_version, res |-> ns]
                   ELSE [r EXCEPT !.i = @ + 1, !.namespaces = @ \cup {ns.val}]]
        /\ UNCHANGED <<heap, arrays, registry, last>>

\* The set is complete: get_namespace raises on none and on several
\* namespaces, and returns the only one otherwise.
Decide ==
    \E t \in Threads :
        /\ running[t].pc = "collect"
        /\ running[t].i > Len(running[t].cosmos)
        /\ LET r == running[t]
               res == IF r.namespaces = {}
                      THEN Raise("ValueError", "Unrecognized cosmology input",
                                 <<"core", "get_namespace">>)
                      ELSE IF Cardinality(r.namespaces) # 1
                      THEN Raise("ValueError", "Multiple namespaces for cosmology inputs",
                                 <<"core", "get_namespace">>)
                      ELSE Ok(CHOOSE n \in r.namespaces : TRUE)
           IN  running' = [running EXCEPT ![t] =
                   [pc |-> "done", op |-> "get_namespace", cosmos |-> r.cosmos,
                    api_version |-> r.api_version, res |-> res]]
        /\ UNCHANGED <<heap, arrays, registry, last>>

\* The call of a thread has ended and the thread goes on.
ThreadReturn ==
    \E t \in Threads :
        /\ running[t].pc = "done"
        /\ running' = [running EXCEPT ![t] = [pc |-> "idle"]]
        /\ UNCHANGED <<heap, arrays, registry, last>>

NextThreads ==
    \/ BeginCall
    \/ ReadAccessor
    \/ RunSpecialization
    \/ BeginGetNamespace
    \/ Collect
    \/ Decide
    \/ ThreadReturn

SpecThreads == InitThreads /\ [][NextThreads]_vars

\* =====================================================================
\* The claims.
\* =====================================================================

\* The density parameter of each density function, by species: curvature Ok,
\* matter Om, baryons Ob, cold dark matter Odm, photons Ogamma, neutrinos Onu,
\* dark energy Ode, total Otot; the z = 0 variant reads the accessor named <X>0.
DensityParameterOf ==
    [rho_curve0 |-> "Ok0", rho_curve |-> "Ok", rho_matter0 |-> "Om0",
     rho_matter |-> "Om", rho_baryon0 |-> "Ob0", rho_baryon |-> "Ob",
     rho_dm0 |-> "Odm0", rho_dm |-> "Odm", rho_photon0 |-> "Ogamma0",
     rho_photon |-> "Ogamma", rho_neutrino0 |-> "Onu0", rho_neutrino |-> "Onu",
     rho_de0 |-> "Ode0", rho_de |-> "Ode", rho_total0 |-> "Otot0",
     rho_total |-> "Otot"]

\* The accessor each direct-read function stands for.
AccessorOf ==
    [omega_curve0 |-> "Ok0", omega_curve |-> "Ok", omega_matter0 |-> "Om0",
     omega_matter |-> "Om", omega_baryon0 |-> "Ob0", omega_baryon |-> "Ob",
     omega_dm0 |-> "Odm0", omega_dm |-> "Odm", omega_photon0 |-> "Ogamma0",
     omega_photon |-> "Ogamma", omega_neutrino0 |-> "Onu0",
     omega_neutrino |-> "Onu", omega_de0 |-> "Ode0", omega_de |-> "Ode",
     omega_total0 |-> "Otot0", omega_total |-> "Otot",
     scale_factor0 |-> "scale_factor0", scale_factor |-> "scale_factor",
     critical_density0 |-> "critical_density0",
     critical_density |-> "critical_density", age |-> "age",
     lookback_time |-> "lookback_time",
     comoving_distance |-> "comoving_distance",
     comoving_transverse_distance |-> "comoving_transverse_distance",
     comoving_volume |-> "comoving_volume",
     differential_comoving_volume |-> "differential_comoving_volume",
     angular_diameter_distance |-> "angular_diameter_distance",
     luminosity_distance |-> "luminosity_distance",
     hubble_distance |-> "hubble_distance", hubble_time |-> "hubble_time",
     Tcmb0 |-> "Tcmb0", Tcmb |-> "Tcmb", hubble_parameter0 |-> "H0",
     dimensionless_hubble_parameter0 |-> "h", hubble_parameter |-> "H",
     standardized_hubble_function |-> "efunc",
     inv_standardized_hubble_function |-> "inv_efunc", N_eff |-> "Neff",
     mass_nu |-> "m_nu"]

\* The last operation was a call of a function of the set fns.
CalledOneOf(fns) == last.op = "call" /\ last.fn \in fns

\* No registered specialization overrides f for the object: f has no registry,
\* or the object's class is a subclass of none of the classes that have an
\* entry in it.
NoOverride(f, cosmo) ==
    \/ f \notin SingleDispatchFns
    \/ \A t \in Specialized_classes(f) : ~issubclass(heap[cosmo].cls, t)

\* ---------------------------------------------------------------------
\* C1: with no specialization overriding it, rho_X0(c) is OX0 of c times
\* critical_density0 of the same c, for the seven species and for the total,
\* in every module: a call returns a value only if both reads answered, and
\* the value is then exactly their product.
C1_RhoAtZeroIsProduct ==
    (CalledOneOf(Rho0Fns) /\ NoOverride(last.fn, last.cosmo)) =>
        LET omega == GetAttr(last.cosmo, DensityParameterOf[last.fn[2]])
            crit  == GetAttr(last.cosmo, "critical_density0")
        IN  /\ (omega.ok /\ crit.ok) =>
                 last.res = Ok(Answer(last.cosmo, DensityParameterOf[last.fn[2]], 0)
                                 * Answer(last.cosmo, "critical_density0", 0))
            /\ last.res.ok => (omega.ok /\ crit.ok)

\* C1's case: a decorated rho_X0 that has a specialization for some class is
\* called with an object the specialization does not apply to, and returns.
C1_Witness ==
    /\ CalledOneOf(Rho0Fns \cap SingleDispatchFns)
    /\ Specialized_classes(last.fn) # {}
    /\ NoOverride(last.fn, last.cosmo)
    /\ last.res.ok

\* ---------------------------------------------------------------------
\* C2: with no specialization overriding it, rho_X(c, z) is OX(z) times
\* critical_density(z) of c, both read at the redshift of the caller's array.
C2_RhoAtRedshiftIsProduct ==
    (CalledOneOf(RhoZFns) /\ NoOverride(last.fn, last.cosmo)) =>
        LET omega == CallMethod(last.cosmo, DensityParameterOf[last.fn[2]], last.z)
            crit  == CallMethod(last.cosmo, "critical_density", last.z)
            zv    == arrays[last.z].v
        IN  /\ (omega.ok /\ crit.ok) =>
                 last.res = Ok(Answer(last.cosmo, DensityParameterOf[last.fn[2]], zv)
                                 * Answer(last.cosmo, "critical_density", zv))
            /\ last.res.ok => (omega.ok /\ crit.ok)

\* C2's case: a decorated rho_X with a specialization for some class is called
\* at the redshift 2 with an object the specialization does not apply to.
C2_Witness ==
    /\ CalledOneOf(RhoZFns \cap SingleDispatchFns)
    /\ Specialized_classes(last.fn) # {}
    /\ NoOverride(last.fn, last.cosmo)
    /\ arrays[last.z].v = 2
    /\ last.res.ok

\* ---------------------------------------------------------------------
\* C3: a direct-read function ends exactly as its one accessor does, read on
\* the caller's object and, when there is one, at the caller's redshift.
C3_DirectReadIsAccessor ==
    /\ CalledOneOf(PropertyFns) =>
           last.res = GetAttr(last.cosmo, AccessorOf[last.fn[2]])
    /\ CalledOneOf(MethodFns) =>
           last.res = CallMethod(last.cosmo, AccessorOf[last.fn[2]], last.z)

\* C3's case: lookback_time has been called and returned a value.
C3_Witness ==
    /\ CalledOneOf({<<"background", "lookback_time">>})
    /\ last.res.ok

GenericProduct(f, cosmo, z) ==
    IF z = NoZ
    THEN Mul(GetAttr(cosmo, DensityParameterOf[f[2]]),
             GetAttr(cosmo, "critical_density0"))
    ELSE Mul(CallMethod(cosmo, DensityParameterOf[f[2]], z),
             CallMethod(cosmo, "critical_density", z))

\* The classes f has a specialization for that cls is a subclass of.
Applicable(f, cls) == {t \in Specialized_classes(f) : issubclass(cls, t)}

\* How near a class t that cls is a subclass of is to cls: the classes of
\* cls.__mro__ in their order, and an abstract base class that a class of the
\* __mro__ is a virtual subclass of right after that class.
Rank(cls, t) ==
    LET mro == MRO(cls)
    IN  IF \E k \in 1..Len(mro) : mro[k] = t
        THEN 2 * (CHOOSE k \in 1..Len(mro) : mro[k] = t)
        ELSE 2 * (CHOOSE k \in 1..Len(mro) :
                      /\ t \in VirtualBases(mro[k])
                      /\ \A j \in 1..(k - 1) : t \notin VirtualBases(mro[j])) + 1

\* The nearest of the applicable classes: one class, or several abstract base
\* classes that are equally near.
Nearest(f, cls) ==
    {t \in Applicable(f, cls) : \A u \in Applicable(f, cls) : Rank(cls, t) <= Rank(cls, u)}

\* C5 as stated: once a function has a specialization for a class T, an
\* instance of exactly T gets the specialization, and an instance of any other
\* class, the classes derived from T included, gets the generic product.
C5_ExactTypeOnly ==
    (CalledOneOf(SingleDispatchFns) /\ Specialized_classes(last.fn) # {}) =>
        IF heap[last.cosmo].cls \in Specialized_classes(last.fn)
        THEN /\ last.ran = registry[last.fn][heap[last.cosmo].cls]
             /\ last.res = Specialized(last.ran, last.cosmo, last.z)
        ELSE /\ last.ran = "default"
             /\ last.res = GenericProduct(last.fn, last.cosmo, last.z)

\* C5 as amended: the specialization that runs is the one registered for the
\* nearest class the object's class is a subclass of (the object's own class
\* first, then the classes it derives from, an abstract base class it is a
\* virtual subclass of counting as nearer than the classes it derives from);
\* the generic product is returned only when it is a subclass of none of the
\* classes with a specialization; and when two unrelated abstract base classes
\* are the nearest, the call raises RuntimeError and returns nothing.
C5_NearestRegisteredClass ==
    (CalledOneOf(SingleDispatchFns) /\ Specialized_classes(last.fn) # {}) =>
        LET near == Nearest(last.fn, heap[last.cosmo].cls)
        IN  IF near = {}
            THEN /\ last.ran = "default"
                 /\ last.res = GenericProduct(last.fn, last.cosmo, last.z)
            ELSE IF Cardinality(near) = 1
            THEN /\ last.ran = registry[last.fn][CHOOSE t \in near : TRUE]
                 /\ last.res = Specialized(last.ran, last.cosmo, last.z)
            ELSE /\ last.ran = "none"
                 /\ ~last.res.ok
                 /\ last.res.exc.kind = "RuntimeError"

\* C5's case: a function with a specialization for LCDM alone is called with an
\* instance of FlatLCDM, which derives from LCDM, and the specialization ran.
C5_Witness ==
    /\ CalledOneOf(RhoZFns \cap SingleDispatchFns)
    /\ Specialized_classes(last.fn) = {"LCDM"}
    /\ heap[last.cosmo].cls = "FlatLCDM"
    /\ last.ran \in Specializations

\* ---------------------------------------------------------------------
\* C6: on every rho-function, in every module, a specialization can be
\* registered for a class and is then what a call with an instance of that
\* class runs: register() succeeds and dispatch selects what was registered.
C6_EveryRhoIsExtensionPoint ==
    last.op = "register" =>
        /\ last.res.ok
        /\ dispatch(last.fn, last.cls) = Ok(last.impl)

\* ---------------------------------------------------------------------
\* The accessor reads of a function's generic body, in the order it makes them.
Reads(f, cosmo, z) ==
    IF f \in PropertyFns THEN <<GetAttr(cosmo, AccessorOf[f[2]])>>
    ELSE IF f \in MethodFns THEN <<CallMethod(cosmo, AccessorOf[f[2]], z)>>
    ELSE IF f \in Rho0Fns
    THEN <<GetAttr(cosmo, DensityParameterOf[f[2]]), GetAttr(cosmo, "critical_density0")>>
    ELSE <<CallMethod(cosmo, DensityParameterOf[f[2]], z),
           CallMethod(cosmo, "critical_density", z)>>

\* C7: when an accessor read of a derived-quantity call raises, the call ends
\* with that very exception (its class, message and origin untouched) and with
\* no value; for a density function, whichever of its two reads fails first.
C7_AccessorErrorPropagates ==
    (last.op = "call" /\ last.ran = "default") =>
        LET reads == Reads(last.fn, last.cosmo, last.z)
        IN  \A i \in 1..Len(reads) :
                (~reads[i].ok /\ \A j \in 1..(i - 1) : reads[j].ok) =>
                    last.res = reads[i]

\* C7's case: a density function whose density parameter answered and whose
\* critical density raised has ended with the critical density's exception.
C7_Witness ==
    /\ CalledOneOf(RhoZFns)
    /\ ~last.res.ok
    /\ last.res.exc.by = <<last.cosmo, "critical_density">>
    /\ CallMethod(last.cosmo, DensityParameterOf[last.fn[2]], last.z).ok

\* ---------------------------------------------------------------------
\* Where an exception get_namespace ended with came from: input recognition,
\* input consistency, or an accessor of a cosmology object.
Origin(exc) ==
    IF exc.by # <<"core", "get_namespace">> THEN "accessor"
    ELSE IF exc.msg = "Unrecognized cosmology input" THEN "recognition"
    ELSE "consistency"

\* C8 as stated: the kind of an exception identifies its origin, so no two
\* failing calls of get_namespace of different origins end with the same kind.
C8_KindIdentifiesOrigin ==
    (last.op = "get_namespace" /\ ~last.res.ok) =>
        \A cosmos \in ArgLists, api_version \in ApiVersions :
            LET other == get_namespace(cosmos, api_version)
            IN  (~other.ok /\ Origin(other.exc) # Origin(last.res.exc)) =>
                    other.exc.kind # last.res.exc.kind

\* C8 as amended: what get_namespace raises itself is a ValueError in both
\* cases, and the message tells the two apart: "Unrecognized cosmology input"
\* exactly when no input is recognized, "Multiple namespaces ..." otherwise;
\* an exception of a namespace accessor comes through as the object raised it.
C8_LayerErrorsAreValueErrors ==
    (last.op = "get_namespace" /\ ~last.res.ok) =>
        LET recognized == {i \in 1..Len(last.cosmos) : IsCosmologyAPI(last.cosmos[i])}
            exc        == last.res.exc
        IN  IF exc.by = <<"core", "get_namespace">>
            THEN /\ exc.kind = "ValueError"
                 /\ exc.msg \in {"Unrecognized cosmology input",
                                 "Multiple namespaces for cosmology inputs"}
                 /\ (exc.msg = "Unrecognized cosmology input") <=> (recognized = {})
            ELSE \E i \in recognized :
                     last.res = CosmologyNamespace(last.cosmos[i], last.api_version)

\* C8's case: one call has ended with the conflict error, a ValueError, and a
\* call without recognized input ends with a ValueError too.
C8_Witness ==
    /\ last.op = "get_namespace"
    /\ ~last.res.ok
    /\ Origin(last.res.exc) = "consistency"
    /\ last.res.exc.kind = get_namespace(<<>>, None).exc.kind

\* ---------------------------------------------------------------------
\* The array of the call is of another backend than the cosmology is bound to.
MixedBackends == last.z # NoZ /\ arrays[last.z].xp # heap[last.cosmo].xp

\* C9 as stated: no derived-quantity call that mixes backends returns a value.
C9_MixedCallRejected ==
    (last.op = "call" /\ MixedBackends) => ~last.res.ok

\* C9 as amended: a derived-quantity function does not resolve namespaces; a
\* call that mixes backends hands the array to the accessors as it is, returns
\* a value exactly when they all answer, and otherwise ends with the
\* exception of the cosmology's own accessor.
C9_MixedCallIsForwarded ==
    (last.op = "call" /\ MixedBackends /\ last.ran = "default") =>
        LET reads == Reads(last.fn, last.cosmo, last.z)
        IN  /\ last.res.ok <=> \A i \in 1..Len(reads) : reads[i].ok
            /\ ~last.res.ok => last.res.exc.by[1] = last.cosmo

\* C9's case: a density function called with an array of another backend has
\* returned a value.
C9_Witness ==
    /\ CalledOneOf(RhoZFns)
    /\ MixedBackends
    /\ last.res.ok

\* ---------------------------------------------------------------------
\* Nothing this layer keeps between calls refers to an object or an array.
NoReferenceKept ==
    \A f \in DOMAIN registry : \A cls \in DOMAIN registry[f] :
        /\ cls \notin Objects \cup Arrays
        /\ registry[f][cls] \notin Objects \cup Arrays

\* C10: no step writes to a cosmology object or to a redshift array, whether
\* the operation returns or raises, and once the caller has the outcome the
\* layer holds nothing of the call.
C10_NothingWritten ==
    [][/\ heap' = heap
       /\ arrays' = arrays
       /\ NoReferenceKept'
       /\ Idle' => registry' = registry]_vars

\* C10's case: get_namespace has failed, a density function has been
\* specialized before, and the heap is what the caller built.
C10_Witness ==
    /\ last.op = "get_namespace"
    /\ ~last.res.ok
    /\ \E f \in SingleDispatchFns : Specialized_classes(f) # {}
    /\ heap = InitialHeap
    /\ arrays = InitialArrays

\* ---------------------------------------------------------------------
\* What dispatch comes to for an object of the class cls, read off the
\* registry: the implementation of the nearest applicable class, the generic
\* default when no class applies, nothing when the nearest is not one class.
Selected(f, cls) ==
    LET near == Nearest(f, cls)
    IN  IF near = {} THEN "default"
        ELSE IF Cardinality(near) = 1 THEN registry[f][CHOOSE t \in near : TRUE]
        ELSE "none"

\* The redshift arguments a function can be called with.
RedshiftsOf(f) == IF f \in Rho0Fns THEN {NoZ} ELSE Arrays

\* C11 as stated: every call of a dispatched density function runs exactly
\* one implementation, the one selected for the class of the cosmology
\* argument, and a call with any other object of that class, at any redshift
\* array, runs the same one.
C11_ExactlyOneImplementationRuns ==
    CalledOneOf(SingleDispatchFns) =>
        /\ last.ran \in {"default"} \cup Specializations
        /\ last.ran = Selected(last.fn, heap[last.cosmo].cls)
        /\ \A o \in Cosmologies, z \in RedshiftsOf(last.fn) :
               heap[o].cls = heap[last.cosmo].cls => Invoke(last.fn, o, z).ran = last.ran

\* C11 as amended: a call of a dispatched density function runs at most one
\* implementation, and which one is decided by the class of the cosmology
\* argument alone: the one selected for that class, whose result is then the
\* call's; none, and the call raises RuntimeError, exactly when the nearest
\* applicable classes are two unrelated abstract base classes.  A call with
\* any other object of the same class, whatever its values, at any redshift
\* array of any backend, comes to the same.
C11_ChosenByTypeAlone ==
    CalledOneOf(SingleDispatchFns) =>
        LET cls == heap[last.cosmo].cls
        IN  /\ last.ran = Selected(last.fn, cls)
            /\ last.res = IF last.ran = "default"
                          THEN GenericProduct(last.fn, last.cosmo, last.z)
                          ELSE IF last.ran = "none"
                          THEN Raise("RuntimeError", "Ambiguous dispatch",
                                     <<"functools", "_find_impl">>)
                          ELSE Specialized(last.ran, last.cosmo, last.z)
            /\ last.ran = "none" <=>
                   \E t, u \in Nearest(last.fn, cls) \cap AbstractClasses : t # u
            /\ \A o \in Cosmologies, z \in RedshiftsOf(last.fn) :
                   heap[o].cls = cls => Invoke(last.fn, o, z).ran = last.ran

\* C11's case: two objects of the class LCDM hold different values (one answers
\* every accessor, the other raises on most); the function has a specialization
\* for LCDM, and the call with the failing object at the jax array ran it.
C11_Witness ==
    /\ CalledOneOf(RhoZFns \cap SingleDispatchFns)
    /\ last.cosmo = "c4"
    /\ heap["c1"].cls = heap["c4"].cls
    /\ arrays[last.z].xp = "jax"
    /\ last.ran \in Specializations
    /\ ~GenericProduct(last.fn, last.cosmo, last.z).ok

\* ---------------------------------------------------------------------
\* No call of f finds specializations without a precedence among them.
Unambiguous(f) ==
    \A cls \in CosmologyClasses : Cardinality(Nearest(f, cls)) <= 1

\* The step is a registration that was accepted.
Registered == last.op = "none" /\ last'.op = "register" /\ last'.res.ok

\* C12 as stated: no registration brings a function to hold two applicable
\* specializations without a precedence for the class of some argument, and
\* none replaces the specialization a class has without raising.
C12_NoAmbiguityNoReplacement ==
    [][\A f \in SingleDispatchFns :
           (last.op = "none" /\ last'.op = "register" /\ last'.fn = f) =>
               /\ Unambiguous(f)'
               /\ \A cls \in Specialized_classes(f) :
                      registry'[f][cls] # registry[f][cls] => ~last'.res.ok]_vars

\* C12 as amended: a registry holds one implementation per class, and an
\* accepted registration puts its implementation in the place of whatever the
\* class had (the last registration wins) and touches no other entry of any
\* registry.  After it, dispatch has an answer for every cosmology class
\* unless two unrelated abstract base classes that the class is a virtual
\* subclass of both have a specialization and nothing nearer has one; with
\* specializations for concrete classes only it always has one.
C12_LastRegistrationWins ==
    [][\A f \in SingleDispatchFns :
           (Registered /\ last'.fn = f) =>
               /\ DOMAIN registry'[f] = DOMAIN registry[f] \cup {last'.cls}
               /\ registry'[f][last'.cls] = last'.impl
               /\ \A c \in DOMAIN registry[f] \ {last'.cls} :
                      registry'[f][c] = registry[f][c]
               /\ \A g \in SingleDispatchFns \ {f} : registry'[g] = registry[g]
               /\ \A cls \in CosmologyClasses :
                      /\ dispatch(f, cls)'.ok <=> (Cardinality(Nearest(f, cls)) <= 1)'
                      /\ (Specialized_classes(f) \cap AbstractClasses = {})' =>
                             dispatch(f, cls)'.ok
                      /\ ~dispatch(f, cls)'.ok =>
                             (/\ Cardinality(Nearest(f, cls) \cap AbstractClasses) >= 2
                              /\ Nearest(f, cls) \subseteq VirtualBases(cls))']_vars

\* C12's case: a function that has the specialization special1 for one
\* abstract base class has just been given special2 for the other, and from
\* now on dispatch has no answer for the class FlatLCDM.
C12_Witness ==
    /\ last.op = "register"
    /\ last.res.ok
    /\ last.cls \in AbstractClasses
    /\ last.impl = "special2"
    /\ \E t \in (AbstractClasses \cap DOMAIN registry[last.fn]) \ {last.cls} :
           registry[last.fn][t] = "special1"
    /\ ~dispatch(last.fn, "FlatLCDM").ok

\* ---------------------------------------------------------------------
\* C13 as stated: from the end of module initialization on (the registries as
\* the import of the modules leaves them) no step changes the registry of any
\* function, nor the implementation dispatch selects for any cosmology class.
C13_RegistryFrozen ==
    [][\A f \in SingleDispatchFns :
           /\ registry'[f] = registry[f]
           /\ \A cls \in CosmologyClasses : dispatch(f, cls)' = dispatch(f, cls)]_vars

\* C13 as amended: no operation other than register changes a registry: a
\* call of a derived-quantity function, a call of get_namespace and the end
\* of an operation leave every registry as it is, and with it what dispatch
\* selects for each cosmology class; register is accepted at any time, also
\* after calls, and only it changes the selection.
C13_OnlyRegisterChangesRegistry ==
    [][/\ last'.op # "register" => registry' = registry
       /\ \A f \in SingleDispatchFns :
              (last'.op = "call" /\ last'.fn = f) =>
                  \A cls \in CosmologyClasses : dispatch(f, cls)' = dispatch(f, cls)]_vars

\* C13's case: a function with specializations for two classes has been
\* called with the jax-bound FlatLCDM object and ran the second of them.
C13_Witness ==
    /\ CalledOneOf(Rho0Fns \cap SingleDispatchFns)
    /\ Cardinality(Specialized_classes(last.fn)) = 2
    /\ last.cosmo = "c2"
    /\ last.ran = "special2"

\* ---------------------------------------------------------------------
\* What the call a thread is in comes to when nothing else runs.
Alone(t) ==
    IF running[t].op = "call"
    THEN Invoke(running[t].fn, running[t].cosmo, running[t].z).res
    ELSE get_namespace(running[t].cosmos, running[t].api_version)

DerivedFns == PropertyFns \cup MethodFns \cup Rho0Fns \cup RhoZFns

\* C15: an accepted registration on the function f that changes a registry
\* changes what f returns and nothing else: every other function (the omega function of the species, the
\* total and the matter density, the function of the same name in the other
\* module, any other) returns after it, for every object and every redshift,
\* what it returned before.
C15_RegistrationIsLocal ==
    [][\A f \in SingleDispatchFns :
           (Registered /\ last'.fn = f /\ registry' # registry) =>
               /\ heap' = heap
               /\ arrays' = arrays
               /\ \A g \in DerivedFns \ {f} : \A cosmo \in Cosmologies, z \in Redshifts(g) :
                      Invoke(g, cosmo, z)' = Invoke(g, cosmo, z)]_vars

\* C15's case: cosmology.core.standard.rho_dm has just been given a
\* specialization for LCDM, which a call with an LCDM object now runs, and the
\* rho_dm of cosmology.core.components still runs its generic product.
C15_Witness ==
    /\ last.op = "register"
    /\ last.res.ok
    /\ last.fn = <<"standard", "rho_dm">>
    /\ last.cls = "LCDM"
    /\ Invoke(<<"standard", "rho_dm">>, "c1", "z1").ran = last.impl
    /\ Invoke(<<"components", "rho_dm">>, "c1", "z1").ran = "default"

\* ---------------------------------------------------------------------
\* The function of the same name in the other of the two overlapping modules.
Twin(f) == <<IF f[1] = "standard" THEN "components" ELSE "standard", f[2]>>

\* The functions defined both in cosmology.core.standard and in a module of
\* cosmology.core.components.
Overlapping ==
    {f \in DerivedFns : f[1] \in {"standard", "components"} /\ Twin(f) \in DerivedFns}

\* No specialization is registered on f.
Unspecialized(f) == f \in SingleDispatchFns => Specialized_classes(f) = {}

\* C16: a function that the two modules both define, called while neither of
\* the two has a specialization, ends as the definition of the other module
\* does for the same object and redshift: the same value, or the same
\* exception.
C16_ModulesAgree ==
    (CalledOneOf(Overlapping) /\ Unspecialized(last.fn) /\ Unspecialized(Twin(last.fn))) =>
        last.res = Invoke(Twin(last.fn), last.cosmo, last.z).res

\* C16's case: with a specialization registered on some other function,
\* rho_neutrino of cosmology.core.standard has been called with the object
\* whose density parameters raise, and has ended with the exception.
C16_Witness ==
    /\ CalledOneOf({<<"standard", "rho_neutrino">>})
    /\ last.cosmo = "c3"
    /\ ~last.res.ok
    /\ \E f \in SingleDispatchFns : Specialized_classes(f) # {}
    /\ Unspecialized(last.fn)
    /\ Unspecialized(Twin(last.fn))

\* ---------------------------------------------------------------------
\* The places of an argument list that hold a recognized input.
Recognized(cosmos) == {i \in 1..Len(cosmos) : IsCosmologyAPI(cosmos[i])}

\* The recognized inputs of an argument list, as a set.
RecognizedSet(cosmos) == {cosmos[i] : i \in Recognized(cosmos)}

\* Two calls end alike: with the same namespace, or with an exception of the
\* same kind.
SameOutcome(a, b) ==
    /\ a.ok = b.ok
    /\ a.ok => a.val = b.val
    /\ ~a.ok => a.exc.kind = b.exc.kind

\* The argument list the other way round, with its first argument moved to
\* the end, with its first argument repeated, and with an object that is no
\* cosmology put in front.
Reversed(cosmos) == [i \in 1..Len(cosmos) |-> cosmos[Len(cosmos) + 1 - i]]

Rotated(cosmos) == IF cosmos = <<>> THEN cosmos ELSE Append(Tail(cosmos), Head(cosmos))

Repeated(cosmos) == IF cosmos = <<>> THEN cosmos ELSE Append(cosmos, Head(cosmos))

Padded(cosmos) == <<"x1">> \o cosmos

\* The recognized inputs in the order of the arguments, once per occurrence,
\* from the i-th place on.
RECURSIVE Occurrences(_, _)
Occurrences(cosmos, i) ==
    IF i > Len(cosmos) THEN <<>>
    ELSE IF IsCosmologyAPI(cosmos[i]) THEN <<cosmos[i]>> \o Occurrences(cosmos, i + 1)
    ELSE Occurrences(cosmos, i + 1)

============================================================================
